---- MODULE Spec2Model ----
(***************************************************************************)
(* Model of app_deployment_lib/cf_cli.py: the wrapper around the "cf"       *)
(* command line tool.  One caller invokes the module's functions one at a   *)
(* time; a function builds an argument vector, spawns a child process,      *)
(* blocks until the child has terminated, and returns or raises.            *)
(*                                                                          *)
(* Texts.  A Python string is modelled as a sequence of atoms.  An atom is  *)
(* either one delimiter character (space, tab, newline, colon) or a maximal *)
(* run of other characters ("User", "admin", "create-service").  The string *)
(* functions the code uses (split, splitlines, strip, partition, join) only *)
(* ever cut at delimiter characters, so they are modelled atom by atom.     *)
(* The code is Python 2 (it names StandardError): process output is a byte  *)
(* string and the blank characters of split()/strip() are the ASCII ones.   *)
(* The executable "cf" is taken to be on the search path, so Popen itself   *)
(* succeeds.                                                                *)
(***************************************************************************)
EXTENDS Integers, Sequences, FiniteSets, TLC

VARIABLES
    pc,        \* "idle" | "wait" (inside wait()/communicate() on the last child) | "done"
    call,      \* the public function being executed and its arguments
    prim,      \* the function whose Popen is being waited for
    procs,     \* the child processes spawned during this call, in spawn order
    outcome    \* what the call gave its caller: nothing yet, a value, or an exception

vars == <<pc, call, prim, procs, outcome>>

----------------------------------------------------------------------------
(* Characters and the Python string functions used by the module. *)

SP    == " "
TAB   == "\t"
NL    == "\n"
COLON == ":"

\* the blank characters of str.split() and str.strip() that occur in the model
Whitespace == {SP, TAB, NL}

EmptyStr == <<>>

\* indices of s holding an atom of set cs
Positions(s, cs) == {i \in 1..Len(s) : s[i] \in cs}

SetMin(S) == CHOOSE x \in S : \A y \in S : x <= y
SetMax(S) == CHOOSE x \in S : \A y \in S : x >= y

\* str.strip()
strip(s) ==
    LET keep == {i \in 1..Len(s) : s[i] \notin Whitespace}
    IN  IF keep = {} THEN EmptyStr ELSE SubSeq(s, SetMin(keep), SetMax(keep))

\* str.partition(sep) for a one-character sep: <<head, sep, tail>>
partition(s, sep) ==
    LET at == Positions(s, {sep})
    IN  IF at = {} THEN <<s, EmptyStr, EmptyStr>>
        ELSE LET i == SetMin(at)
             IN  <<SubSeq(s, 1, i - 1), <<sep>>, SubSeq(s, i + 1, Len(s))>>

\* str.split() with no argument: the maximal runs of non-blank characters
RECURSIVE split(_)
split(s) ==
    LET keep == {i \in 1..Len(s) : s[i] \notin Whitespace}
    IN  IF keep = {} THEN <<>>
        ELSE LET b    == SetMin(keep)
                 stop == {i \in b..Len(s) : s[i] \in Whitespace}
                 e    == IF stop = {} THEN Len(s) + 1 ELSE SetMin(stop)
             IN  <<SubSeq(s, b, e - 1)>> \o split(SubSeq(s, e, Len(s)))

\* str.splitlines(): cut at line ends, no final empty line
RECURSIVE splitlines(_)
splitlines(s) ==
    IF s = EmptyStr THEN <<>>
    ELSE LET at == Positions(s, {NL})
         IN  IF at = {} THEN <<s>>
             ELSE LET i == SetMin(at)
                  IN  <<SubSeq(s, 1, i - 1)>> \o splitlines(SubSeq(s, i + 1, Len(s)))

\* sep.join(parts)
RECURSIVE join(_, _)
join(sep, parts) ==
    IF parts = <<>> THEN EmptyStr
    ELSE IF Len(parts) = 1 THEN parts[1]
    ELSE parts[1] \o sep \o join(sep, Tail(parts))

\* str(n) for an integer
str(n) == <<ToString(n)>>

\* whether text needle occurs in text s
Contains(s, needle) ==
    \E i \in 1..(Len(s) + 1) :
        /\ i + Len(needle) - 1 <= Len(s)
        /\ SubSeq(s, i, i + Len(needle) - 1) = needle

\* Python's None and optional strings
PyNone   == [isNone |-> TRUE, s |-> EmptyStr]
PyStr(t) == [isNone |-> FALSE, s |-> t]
Truthy(v) == ~v.isNone /\ v.s # EmptyStr

----------------------------------------------------------------------------
(* Module constants and CfInfo. *)

CF == <<"cf">>

CF_API_KEY   == <<"API", SP, "endpoint">>
USER_KEY     == <<"User">>
PASSWORD_KEY == <<"Password">>
ORG_KEY      == <<"Org">>
SPACE_KEY    == <<"Space">>

CfInfo(api_url, password, user, org, space, ssl_validation, login_required, target_required) ==
    [api_url |-> api_url, password |-> password, user |-> user, org |-> org,
     space |-> space, ssl_validation |-> ssl_validation,
     login_required |-> login_required, target_required |-> target_required]

\* CfInfo.get_empty(): the defaults of __init__ for the arguments not given
get_empty == CfInfo(EmptyStr, EmptyStr, EmptyStr, EmptyStr, EmptyStr, FALSE, TRUE, FALSE)

\* CfInfo.get_login_keys(include_password)
get_login_keys(include_password) ==
    LET login_params == <<CF_API_KEY, USER_KEY>>
    IN  IF include_password THEN Append(login_params, PASSWORD_KEY) ELSE login_params

\* CfInfo.get_org_space_keys()
get_org_space_keys == <<ORG_KEY, SPACE_KEY>>

\* a Python dict as a function on its key set; d[k] = v
DictSet(d, k, v) == [x \in DOMAIN d \cup {k} |-> IF x = k THEN v ELSE d[x]]

\* fault: the password is serialized whether asked for or not
get_target_dict_leaky(self, include_password) ==
    LET cf_target == (CF_API_KEY :> self.api_url) @@ (USER_KEY :> self.user)
                     @@ (ORG_KEY :> self.org) @@ (SPACE_KEY :> self.space)
    IN  DictSet(cf_target, PASSWORD_KEY, self.password)

\* CfInfo.get_target_dict(self, include_password)
get_target_dict(self, include_password) ==
    LET cf_target == (CF_API_KEY :> self.api_url) @@ (USER_KEY :> self.user)
                     @@ (ORG_KEY :> self.org) @@ (SPACE_KEY :> self.space)
    IN  IF include_password THEN DictSet(cf_target, PASSWORD_KEY, self.password)
        ELSE cf_target

----------------------------------------------------------------------------
(* What a call gives its caller. *)

CommandFailedError == "CommandFailedError"
IndexError         == "IndexError"
TypeError          == "TypeError"
KeyError           == "KeyError"

\* the built-in exceptions derived from StandardError that the module can meet
StandardError == {IndexError, TypeError, "KeyError", "ValueError", "OSError"}

NoOutcome        == [kind |-> "none"]
Returned(v)      == [kind |-> "returned", value |-> v]
Raised(exc, msg) == [kind |-> "raised", exc |-> exc, msg |-> msg]

\* the keys CfInfo.from_target_dict looks up, in the order it evaluates them
FromTargetDictKeys == <<CF_API_KEY, PASSWORD_KEY, USER_KEY, ORG_KEY, SPACE_KEY>>

\* CfInfo.from_target_dict(cf_target, login_required, target_required):
\* cf_target[key] raises KeyError(key) for the first key that is missing
from_target_dict(cf_target, login_required, target_required) ==
    LET missing == {i \in 1..Len(FromTargetDictKeys) :
                        FromTargetDictKeys[i] \notin DOMAIN cf_target}
    IN  IF missing # {}
        THEN Raised(KeyError, FromTargetDictKeys[SetMin(missing)])
        ELSE Returned(CfInfo(cf_target[CF_API_KEY], cf_target[PASSWORD_KEY],
                             cf_target[USER_KEY], cf_target[ORG_KEY],
                             cf_target[SPACE_KEY], FALSE, login_required,
                             target_required))

----------------------------------------------------------------------------
(* Child processes: subprocess.Popen. *)

PIPE    == "PIPE"
STDOUT  == "STDOUT"
INHERIT == "inherit"

\* Popen(command, stdout=..., stderr=..., cwd=...): a running child; nothing
\* has been read from its pipe and it has no return code yet (None)
Popen(command, stdout, stderr, cwd) ==
    [argv |-> command, stdout |-> stdout, stderr |-> stderr, cwd |-> cwd, alive |-> TRUE,
     output |-> EmptyStr]

\* the child after it has terminated with `returncode`, having written `output`
\* to the pipe (nothing is captured when its output is inherited)
Terminated(p, returncode, output) ==
    [argv |-> p.argv, stdout |-> p.stdout, stderr |-> p.stderr, cwd |-> p.cwd,
     alive |-> FALSE, returncode |-> returncode,
     output |-> IF p.stdout = PIPE THEN output ELSE EmptyStr]

Last(s) == s[Len(s)]

\* proc.returncode == 0; the return code of a child not yet reaped is None
returncode_is_zero(proc) == ~proc.alive /\ proc.returncode = 0

\* fault: the child is polled, not waited for
wait_returns_at_once(proc) == TRUE

\* proc.wait() and proc.communicate() return once the child has terminated
wait_returns(proc) == ~proc.alive

NumAlive == Cardinality({i \in 1..Len(procs) : procs[i].alive})

----------------------------------------------------------------------------
(* The execution primitives, after the child has terminated. *)

\* fault: the captured output is left out of the error
get_command_output_msg_no_output(proc) ==
    IF returncode_is_zero(proc) THEN Returned(proc.output)
    ELSE Raised(CommandFailedError, <<"Failed command: ">> \o join(<<SP>>, proc.argv))

\* get_command_output(command), from proc.communicate() on
get_command_output_result(proc) ==
    IF returncode_is_zero(proc) THEN Returned(proc.output)
    ELSE Raised(CommandFailedError,
                <<"Failed command: ">> \o join(<<SP>>, proc.argv)
                    \o <<NL, "Output: ">> \o proc.output)

\* fault: only exit code 1 counts as a failure
run_command_only_code_one(proc) ==
    IF proc.stdout = PIPE
    THEN IF ~proc.alive /\ proc.returncode = 1
         THEN Raised(CommandFailedError,
                     <<"Failed command: ">> \o join(<<SP>>, proc.argv)
                         \o <<NL, "Output: ">> \o proc.output)
         ELSE Returned(PyNone)
    ELSE IF ~proc.alive /\ proc.returncode = 1
         THEN Raised(CommandFailedError, <<"Failed command: ">> \o join(<<SP>>, proc.argv))
         ELSE Returned(PyNone)

\* run_command(command, work_dir, redirect_output), from communicate()/wait() on
run_command_result(proc) ==
    IF proc.stdout = PIPE
    THEN IF ~returncode_is_zero(proc)
         THEN Raised(CommandFailedError,
                     <<"Failed command: ">> \o join(<<SP>>, proc.argv)
                         \o <<NL, "Output: ">> \o proc.output)
         ELSE Returned(PyNone)
    ELSE IF ~returncode_is_zero(proc)
         THEN Raised(CommandFailedError, <<"Failed command: ">> \o join(<<SP>>, proc.argv))
         ELSE Returned(PyNone)

\* api(api_url, ssl_validation), from proc.wait() on
api_result(proc) ==
    IF ~returncode_is_zero(proc)
    THEN Raised(CommandFailedError, <<"Command failed: ">> \o join(<<SP>>, proc.argv))
    ELSE Returned(PyNone)

\* auth(username, password), from proc.wait() on; username is argv[2]
auth_result(proc) ==
    IF ~returncode_is_zero(proc)
    THEN Raised(CommandFailedError, <<"Failed to login user: ">> \o proc.argv[3])
    ELSE Returned(PyNone)

\* the result of the primitive fn whose child proc has terminated
PrimResult(fn, proc) ==
    CASE fn = "get_command_output" -> get_command_output_result(proc)
      [] fn = "run_command"        -> run_command_result(proc)
      [] fn = "api"                -> api_result(proc)
      [] fn = "auth"               -> auth_result(proc)

----------------------------------------------------------------------------
(* Parsing of captured output. *)

HeaderLines == 3

BuildpackDescription(t) ==
    [buildpack |-> t[1], position |-> t[2], enabled |-> t[3], locked |-> t[4],
     filename |-> t[5]]

\* lines[n:]
Drop(lines, n) == SubSeq(lines, n + 1, Len(lines))

\* buildpacks(), from the captured text on: BuildpackDescription(*line.split())
\* is a namedtuple of five fields and raises TypeError for any other count
buildpacks_parse(out) ==
    LET buildpack_lines == Drop(splitlines(out), HeaderLines)
        tokens          == [i \in 1..Len(buildpack_lines) |-> split(buildpack_lines[i])]
    IN  IF \E i \in 1..Len(tokens) : Len(tokens[i]) # 5
        THEN Raised(TypeError, <<"__new__() takes exactly 6 arguments">>)
        ELSE Returned([i \in 1..Len(tokens) |-> BuildpackDescription(tokens[i])])

\* cmd_output.split()[0] of get_service_guid and get_org_guid
first_token(cmd_output) ==
    LET tokens == split(cmd_output)
    IN  IF tokens = <<>> THEN Raised(IndexError, <<"list index out of range">>)
        ELSE Returned(tokens[1])

\* command_out.splitlines()[-1] of oauth_token
last_line(command_out) ==
    LET lines == splitlines(command_out)
    IN  IF lines = <<>> THEN Raised(IndexError, <<"list index out of range">>)
        ELSE Returned(Last(lines))

\* fault: the value is cut at any blank, not at the first space
parse_target_line_first_token(target_dict, line) ==
    LET parts == partition(line, COLON)
        key   == parts[1]
        value == parts[3]
        toks  == split(value)
    IN  IF key \in DOMAIN target_dict
        THEN DictSet(target_dict, key, IF toks = <<>> THEN EmptyStr ELSE toks[1])
        ELSE target_dict

\* the body of the loop of _parse_target_cli_output
parse_target_line(target_dict, line) ==
    LET parts == partition(line, COLON)
        key   == parts[1]
        value == parts[3]
    IN  IF key \in DOMAIN target_dict
        THEN DictSet(target_dict, key, partition(strip(value), SP)[1])
        ELSE target_dict

RECURSIVE parse_target_lines(_, _)
parse_target_lines(target_dict, lines) ==
    IF lines = <<>> THEN target_dict
    ELSE parse_target_lines(parse_target_line(target_dict, Head(lines)), Tail(lines))

NonEmpty(line) == line # EmptyStr

\* _parse_target_cli_output(cli_output)
parse_target_cli_output(cli_output) ==
    LET target_dict    == get_target_dict(get_empty, FALSE)
        nonempty_lines == SelectSeq(splitlines(cli_output), NonEmpty)
    IN  parse_target_lines(target_dict, nonempty_lines)

\* fault: the failure of "cf target" is not caught
get_current_cli_target_uncaught(r) ==
    IF r.kind = "raised" THEN r ELSE Returned(parse_target_cli_output(r.value))

\* get_current_cli_target(), r being what get_command_output gave:
\* try ... except (StandardError, CommandFailedError)
get_current_cli_target_result(r) ==
    IF r.kind = "raised"
    THEN IF r.exc \in StandardError \cup {CommandFailedError}
         THEN Returned(get_target_dict(get_empty, FALSE))
         ELSE r
    ELSE Returned(parse_target_cli_output(r.value))

\* what the public function `op` does with the result r of its primitive
Completion(op, r) ==
    IF op = "get_current_cli_target" THEN get_current_cli_target_result(r)
    ELSE IF r.kind = "raised" THEN r
    ELSE IF op = "buildpacks" THEN buildpacks_parse(r.value)
    ELSE IF op \in {"get_service_guid", "get_org_guid"} THEN first_token(r.value)
    ELSE IF op = "oauth_token" THEN last_line(r.value)
    ELSE r

----------------------------------------------------------------------------
(* The inputs the caller and the cf tool are drawn from. *)

MaxLines == 2

\* caller-supplied strings: a plain name and one with a blank inside
Strings == {<<"a">>, <<"b", SP, "c">>}

\* lines a cf command may print
BodyLines ==
    { <<"User", COLON, SP, "admin">>,
      <<"User", COLON, TAB, "root", TAB, "x", SP, "y">>,
      CF_API_KEY \o <<COLON, SP, "https", COLON, "//api", SP, "(API", SP, "version",
                      COLON, SP, "2)">>,
      <<"Password", COLON, SP, "secret">>,
      <<"Org", COLON, "o1", SP, "o2">>,
      <<"Org">>,
      <<SP, "Space", COLON, SP, "s">>,
      <<"Space", COLON, SP, SP, "dev", SP>>,
      <<"ruby", SP, "1", SP, "true", SP, "false", SP, "ruby.zip">>,
      EmptyStr }

\* the three lines cf prints above the buildpack table
Header ==
    << <<"Getting", SP, "buildpacks...">>,
       EmptyStr,
       <<"buildpack", SP, "position", SP, "enabled", SP, "locked", SP, "filename">> >>

Bodies == UNION {[1..n -> BodyLines] : n \in 0..MaxLines}

\* every text a child may write: with or without the header, up to MaxLines lines
Outputs == {join(<<NL>>, h \o b) : h \in {<<>>, Header}, b \in Bodies}

\* what a child whose output run_command captures may write: run_command
\* only ever copies the text into its error message
ShortOutputs == {join(<<NL>>, b) : b \in UNION {[1..n -> BodyLines] : n \in 0..1}}

\* the texts child p may write to its pipe
OutputsOf(p) ==
    IF p.stdout # PIPE THEN {EmptyStr}
    ELSE IF p.stderr = STDOUT THEN ShortOutputs
    ELSE Outputs

ExitCodes == {0, 1, 2}

CfInfos ==
    {CfInfo(<<"https", COLON, "//api">>, pw, <<"admin">>, <<"org">>, <<"space">>, ssl, lr, tr) :
        pw \in {<<"secret">>, EmptyStr}, ssl \in BOOLEAN, lr \in BOOLEAN, tr \in BOOLEAN}
    \cup {get_empty}

----------------------------------------------------------------------------
(* Entering a public function: the code up to its first Popen. *)

Callable == pc = "idle"

\* the call spawns child p from inside primitive fn and blocks on it
Begin(op, args, fn, p) ==
    /\ Callable
    /\ call' = [op |-> op, args |-> args]
    /\ prim' = fn
    /\ procs' = <<p>>
    /\ outcome' = NoOutcome
    /\ pc' = "wait"

\* the call completes without spawning anything
Immediate(op, args, result) ==
    /\ Callable
    /\ call' = [op |-> op, args |-> args]
    /\ prim' = "none"
    /\ procs' = <<>>
    /\ outcome' = result
    /\ pc' = "done"

\* the Popen of run_command(command, work_dir, redirect_output)
run_command_Popen(command, work_dir, redirect_output) ==
    IF redirect_output THEN Popen(command, PIPE, STDOUT, PyStr(work_dir))
    ELSE Popen(command, INHERIT, INHERIT, PyStr(work_dir))

\* the Popen of get_command_output(command)
get_command_output_Popen(command) == Popen(command, PIPE, INHERIT, PyNone)

Cwd == <<".">>

run_command(op, args, command) ==
    Begin(op, args, "run_command", run_command_Popen(command, Cwd, TRUE))

run_command_passthrough(op, args, command, work_dir) ==
    Begin(op, args, "run_command", run_command_Popen(command, work_dir, FALSE))

get_command_output(op, args, command) ==
    Begin(op, args, "get_command_output", get_command_output_Popen(command))

----------------------------------------------------------------------------
(* The public functions.  W(w) is the literal word w of an argument vector. *)

W(w) == <<w>>

DefaultPosition == 1
DefaultTimeout  == 180

bind_service(app_name, instance_name) ==
    run_command("bind_service", <<app_name, instance_name>>,
                <<CF, W("bind-service"), app_name, instance_name>>)

buildpacks ==
    get_command_output("buildpacks", <<>>, <<CF, W("buildpacks")>>)

unbind_service(app_name, instance_name) ==
    run_command("unbind_service", <<app_name, instance_name>>,
                <<CF, W("unbind-service"), app_name, instance_name>>)

create_buildpack(buildpack_name, buildpack_path, position) ==
    run_command("create_buildpack", <<buildpack_name, buildpack_path, position>>,
                <<CF, W("create-buildpack"), buildpack_name, buildpack_path,
                  str(position), W("--enable")>>)

create_org(org_name) ==
    run_command("create_org", <<org_name>>, <<CF, W("create-org"), org_name>>)

\* fault: the -c flag is passed even without parameters
create_service_command_always_c(broker, plan, instance_name, params_json) ==
    <<CF, W("create-service"), broker, plan, instance_name, W("-c"), params_json.s>>

\* the argument vector of create_service
create_service_command(broker, plan, instance_name, params_json) ==
    IF Truthy(params_json)
    THEN <<CF, W("create-service"), broker, plan, instance_name, W("-c"), params_json.s>>
    ELSE <<CF, W("create-service"), broker, plan, instance_name>>

create_service(broker, plan, instance_name, params_json) ==
    run_command("create_service", <<broker, plan, instance_name, params_json>>,
                create_service_command(broker, plan, instance_name, params_json))

create_service_broker(name, user, password, url) ==
    run_command("create_service_broker", <<name, user, password, url>>,
                <<CF, W("create-service-broker"), name, user, password, url>>)

create_service_key(instance_name, key_name) ==
    run_command("create_service_key", <<instance_name, key_name>>,
                <<CF, W("create-service-key"), instance_name, key_name>>)

delete_service_key(instance_name, key_name) ==
    run_command("delete_service_key", <<instance_name, key_name>>,
                <<CF, W("delete-service-key"), instance_name, key_name, W("-f")>>)

create_space(space_name, org_name) ==
    run_command("create_space", <<space_name, org_name>>,
                <<CF, W("create-space"), space_name, W("-o"), org_name>>)

create_user_provided_service(service_name, credentials) ==
    run_command("create_user_provided_service", <<service_name, credentials>>,
                <<CF, W("create-user-provided-service"), service_name, W("-p"), credentials>>)

enable_service_access(broker) ==
    run_command("enable_service_access", <<broker>>,
                <<CF, W("enable-service-access"), broker>>)

env(app_name) ==
    get_command_output("env", <<app_name>>, <<CF, W("env"), app_name>>)

set_env(app_name, env_name, env_value) ==
    get_command_output("set_env", <<app_name, env_name, env_value>>,
                       <<CF, W("set-env"), app_name, env_name, env_value>>)

get_service_guid(service_name) ==
    get_command_output("get_service_guid", <<service_name>>,
                       <<CF, W("service"), W("--guid"), service_name>>)

get_org_guid(org_name) ==
    get_command_output("get_org_guid", <<org_name>>,
                       <<CF, W("org"), W("--guid"), org_name>>)

oauth_token ==
    get_command_output("oauth_token", <<>>, <<CF, W("oauth-token")>>)

push(app_location, manifest_location, options, timeout) ==
    run_command_passthrough("push", <<app_location, manifest_location, options, timeout>>,
                            <<CF, W("push"), W("-t"), str(timeout), W("-f"), manifest_location>>
                                \o split(options),
                            app_location)

restage(app_name) ==
    run_command_passthrough("restage", <<app_name>>, <<CF, W("restage"), app_name>>, Cwd)

restart(app_name) ==
    run_command_passthrough("restart", <<app_name>>, <<CF, W("restart"), app_name>>, Cwd)

start(app_name) ==
    run_command("start", <<app_name>>, <<CF, W("start"), app_name>>)

service(service_name) ==
    get_command_output("service", <<service_name>>, <<CF, W("service"), service_name>>)

update_buildpack(buildpack_name, buildpack_path) ==
    run_command("update_buildpack", <<buildpack_name, buildpack_path>>,
                <<CF, W("update-buildpack"), buildpack_name, W("-p"), buildpack_path>>)

update_service_broker(name, user, password, url) ==
    run_command("update_service_broker", <<name, user, password, url>>,
                <<CF, W("update-service-broker"), name, user, password, url>>)

update_user_provided_service(service_name, credentials) ==
    run_command("update_user_provided_service", <<service_name, credentials>>,
                <<CF, W("update-user-provided-service"), service_name, W("-p"), credentials>>)

create_security_group(security_group, path_to_json) ==
    run_command("create_security_group", <<security_group, path_to_json>>,
                <<CF, W("create-security-group"), security_group, path_to_json>>)

bind_security_group(security_group, org, space) ==
    run_command("bind_security_group", <<security_group, org, space>>,
                <<CF, W("bind-security-group"), security_group, org, space>>)

\* the Popen of api(api_url, ssl_validation)
api_Popen(api_url, ssl_validation) ==
    Popen(IF ~ssl_validation
          THEN <<CF, W("api"), W("--skip-ssl-validation"), api_url>>
          ELSE <<CF, W("api"), api_url>>,
          INHERIT, INHERIT, PyNone)

\* the Popen of auth(username, password)
auth_Popen(username, password) ==
    Popen(<<CF, W("auth"), username, password>>, INHERIT, INHERIT, PyNone)

\* the Popen of target(org, space), through run_command
target_Popen(org, space) ==
    run_command_Popen(<<CF, W("target"), W("-o"), org, W("-s"), space>>, Cwd, TRUE)

api(api_url, ssl_validation) ==
    Begin("api", <<api_url, ssl_validation>>, "api", api_Popen(api_url, ssl_validation))

auth(username, password) ==
    Begin("auth", <<username, password>>, "auth", auth_Popen(username, password))

target(org, space) ==
    Begin("target", <<org, space>>, "run_command", target_Popen(org, space))

get_current_cli_target ==
    get_command_output("get_current_cli_target", <<>>, <<CF, W("target")>>)

\* login(cf_info), up to its first Popen
login(cf_info) ==
    IF cf_info.login_required
    THEN Begin("login", <<cf_info>>, "api", api_Popen(cf_info.api_url, cf_info.ssl_validation))
    ELSE IF cf_info.target_required
    THEN Begin("login", <<cf_info>>, "run_command", target_Popen(cf_info.org, cf_info.space))
    ELSE Immediate("login", <<cf_info>>, Returned(PyNone))

\* the methods of CfInfo: no child process
CfInfo_get_target_dict(self, include_password) ==
    Immediate("CfInfo.get_target_dict", <<self, include_password>>,
              Returned(get_target_dict(self, include_password)))

CfInfo_get_login_keys(include_password) ==
    Immediate("CfInfo.get_login_keys", <<include_password>>,
              Returned(get_login_keys(include_password)))

CfInfo_get_org_space_keys ==
    Immediate("CfInfo.get_org_space_keys", <<>>, Returned(get_org_space_keys))

\* CfInfo.from_target_dict on a dictionary the caller built itself
CfInfo_from_target_dict(cf_target, login_required, target_required) ==
    /\ Callable
    /\ call' = [op |-> "CfInfo.from_target_dict",
                args |-> <<cf_target, login_required, target_required>>,
                source |-> "caller"]
    /\ prim' = "none"
    /\ procs' = <<>>
    /\ outcome' = from_target_dict(cf_target, login_required, target_required)
    /\ pc' = "done"

\* the caller hands the dictionary get_current_cli_target has just returned
\* to CfInfo.from_target_dict
CfInfo_from_current_cli_target(login_required, target_required) ==
    /\ pc = "done" /\ call.op = "get_current_cli_target"
    /\ outcome.kind = "returned"
    /\ call' = [op |-> "CfInfo.from_target_dict",
                args |-> <<outcome.value, login_required, target_required>>,
                source |-> "get_current_cli_target"]
    /\ prim' = "none"
    /\ procs' = <<>>
    /\ outcome' = from_target_dict(outcome.value, login_required, target_required)
    /\ pc' = "done"

----------------------------------------------------------------------------
(* The child terminates, and the blocked function goes on. *)

\* the child being waited for exits with a code, having written its output
ProcessExit ==
    /\ pc = "wait" /\ Last(procs).alive
    /\ \E returncode \in ExitCodes :
       \E output \in OutputsOf(Last(procs)) :
           procs' = [procs EXCEPT ![Len(procs)] = Terminated(@, returncode, output)]
    /\ UNCHANGED <<pc, call, prim, outcome>>

\* fault: login goes on after a failed subcommand
login_proceeds_ignoring_errors(r) == TRUE

\* an exception raised by a subcommand leaves login at once
login_proceeds(r) == r.kind = "returned"

\* whether login has a further subcommand to run after the one that just ended
LoginContinues ==
    /\ call.op = "login"
    /\ login_proceeds(PrimResult(prim, Last(procs)))
    /\ \/ prim = "api"
       \/ prim = "auth" /\ call.args[1].target_required

\* login: api has returned, auth is spawned
login_auth ==
    /\ pc = "wait" /\ wait_returns(Last(procs))
    /\ LoginContinues /\ prim = "api"
    /\ procs' = Append(procs, auth_Popen(call.args[1].user, call.args[1].password))
    /\ prim' = "auth"
    /\ pc' = "wait"
    /\ UNCHANGED <<call, outcome>>

\* login: auth has returned and target_required holds, target is spawned
login_target ==
    /\ pc = "wait" /\ wait_returns(Last(procs))
    /\ LoginContinues /\ prim = "auth"
    /\ procs' = Append(procs, target_Popen(call.args[1].org, call.args[1].space))
    /\ prim' = "run_command"
    /\ pc' = "wait"
    /\ UNCHANGED <<call, outcome>>

\* the public function returns to its caller, or its exception propagates
Return ==
    /\ pc = "wait" /\ wait_returns(Last(procs))
    /\ ~LoginContinues
    /\ outcome' = Completion(call.op, PrimResult(prim, Last(procs)))
    /\ pc' = "done"
    /\ UNCHANGED <<call, prim, procs>>

\* the caller has taken the result; the module keeps nothing between calls
CallerContinues ==
    /\ pc = "done"
    /\ pc' = "idle"
    /\ call' = [op |-> "none", args |-> <<>>]
    /\ prim' = "none"
    /\ procs' = <<>>
    /\ outcome' = NoOutcome

----------------------------------------------------------------------------

Init ==
    /\ pc = "idle"
    /\ call = [op |-> "none", args |-> <<>>]
    /\ prim = "none"
    /\ procs = <<>>
    /\ outcome = NoOutcome

Next ==
    \/ \E a \in Strings, b \in Strings : bind_service(a, b)
    \/ buildpacks
    \/ \E a \in Strings, b \in Strings : unbind_service(a, b)
    \/ \E a \in Strings, b \in Strings, n \in {DefaultPosition, 2} : create_buildpack(a, b, n)
    \/ \E a \in Strings : create_org(a)
    \/ \E a \in Strings, b \in Strings, c \in Strings,
          j \in {PyNone, PyStr(EmptyStr), PyStr(<<"{}">>)} : create_service(a, b, c, j)
    \/ \E a \in Strings, b \in Strings, c \in Strings, d \in Strings :
          create_service_broker(a, b, c, d)
    \/ \E a \in Strings, b \in Strings : create_service_key(a, b)
    \/ \E a \in Strings, b \in Strings : delete_service_key(a, b)
    \/ \E a \in Strings, b \in Strings : create_space(a, b)
    \/ \E a \in Strings, b \in Strings : create_user_provided_service(a, b)
    \/ \E a \in Strings : enable_service_access(a)
    \/ \E a \in Strings : env(a)
    \/ \E a \in Strings, b \in Strings, c \in Strings : set_env(a, b, c)
    \/ \E a \in Strings : get_service_guid(a)
    \/ \E a \in Strings : get_org_guid(a)
    \/ oauth_token
    \/ \E a \in Strings, b \in Strings, o \in Strings \cup {EmptyStr},
          t \in {DefaultTimeout, 60} : push(a, b, o, t)
    \/ \E a \in Strings : restage(a)
    \/ \E a \in Strings : restart(a)
    \/ \E a \in Strings : start(a)
    \/ \E a \in Strings : service(a)
    \/ \E a \in Strings, b \in Strings : update_buildpack(a, b)
    \/ \E a \in Strings, b \in Strings, c \in Strings, d \in Strings :
          update_service_broker(a, b, c, d)
    \/ \E a \in Strings, b \in Strings : update_user_provided_service(a, b)
    \/ \E a \in Strings, b \in Strings : create_security_group(a, b)
    \/ \E a \in Strings, b \in Strings, c \in Strings : bind_security_group(a, b, c)
    \/ \E a \in Strings, v \in BOOLEAN : api(a, v)
    \/ \E a \in Strings, b \in Strings : auth(a, b)
    \/ \E a \in Strings, b \in Strings : target(a, b)
    \/ get_current_cli_target
    \/ \E c \in CfInfos : login(c)
    \/ \E c \in CfInfos, i \in BOOLEAN : CfInfo_get_target_dict(c, i)
    \/ \E i \in BOOLEAN : CfInfo_get_login_keys(i)
    \/ CfInfo_get_org_space_keys
    \/ \E c \in CfInfos, i \in BOOLEAN, lr \in BOOLEAN, tr \in BOOLEAN :
          CfInfo_from_target_dict(get_target_dict(c, i), lr, tr)
    \/ \E lr \in BOOLEAN, tr \in BOOLEAN : CfInfo_from_current_cli_target(lr, tr)
    \/ ProcessExit
    \/ login_auth
    \/ login_target
    \/ Return
    \/ CallerContinues

Spec == Init /\ [][Next]_vars

----------------------------------------------------------------------------
(* Properties. *)

Done == pc = "done"

\* the functions that drive the cf tool (the methods of CfInfo do not)
AdapterCall == call.op \notin {"none", "CfInfo.get_target_dict", "CfInfo.get_login_keys",
                               "CfInfo.get_org_space_keys", "CfInfo.from_target_dict"}

\* some child of this call has terminated with a non-zero code
SomeExitNonZero ==
    \E i \in 1..Len(procs) : ~procs[i].alive /\ procs[i].returncode # 0

\* every child of this call has terminated with code 0, and there is one
AllExitZero ==
    /\ procs # <<>>
    /\ \A i \in 1..Len(procs) : ~procs[i].alive /\ procs[i].returncode = 0

RaisedCommandFailed == outcome.kind = "raised" /\ outcome.exc = CommandFailedError

\* C1: a call of any function but get_current_cli_target, one of whose children
\* exited with a non-zero code, ends by raising CommandFailedError and nothing
\* else, whatever its arguments and whatever the child wrote.
C1_NonZeroExitRaisesCommandFailed ==
    (Done /\ AdapterCall /\ call.op # "get_current_cli_target" /\ SomeExitNonZero)
        => RaisedCommandFailed

\* a captured call whose child wrote something and exited with code 2
C1_Witness ==
    /\ Done /\ call.op = "get_service_guid"
    /\ Last(procs).returncode = 2 /\ Last(procs).output # EmptyStr
    /\ RaisedCommandFailed

\* the functions that return what they decode from the captured text
CapturedCalls == {"env", "service", "set_env", "get_service_guid", "get_org_guid",
                  "oauth_token", "buildpacks", "get_current_cli_target"}

\* C2: a call all of whose children exited with code 0 returns normally, for
\* every captured output, the empty one included; a call that captures nothing
\* for its caller returns None.
C2_ExitZeroReturnsNormally ==
    (Done /\ AdapterCall /\ AllExitZero)
        => /\ outcome.kind = "returned"
           /\ call.op \notin CapturedCalls => outcome.value = PyNone

FourKeys == {CF_API_KEY, USER_KEY, ORG_KEY, SPACE_KEY}

FiveKeys == FourKeys \cup {PASSWORD_KEY}

\* the text of a line before its first colon (the whole line if it has none)
LabelOf(line) ==
    LET at == {i \in 1..Len(line) : line[i] = COLON}
    IN  IF at = {} THEN line ELSE SubSeq(line, 1, SetMin(at) - 1)

\* the text of a line after its first colon
AfterColon(line) ==
    LET at == {i \in 1..Len(line) : line[i] = COLON}
    IN  IF at = {} THEN EmptyStr ELSE SubSeq(line, SetMin(at) + 1, Len(line))

\* the first whitespace-delimited token of a text, empty if it has none
FirstToken(t) ==
    LET keep == {i \in 1..Len(t) : t[i] \notin Whitespace}
    IN  IF keep = {} THEN EmptyStr
        ELSE LET b    == SetMin(keep)
                 stop == {i \in b..Len(t) : t[i] \in Whitespace}
             IN  SubSeq(t, b, IF stop = {} THEN Len(t) ELSE SetMin(stop) - 1)

\* a text without its leading and trailing blanks, cut before its first space
UpToSpace(t) ==
    LET keep == {i \in 1..Len(t) : t[i] \notin Whitespace}
    IN  IF keep = {} THEN EmptyStr
        ELSE LET b    == SetMin(keep)
                 stop == {i \in b..SetMax(keep) : t[i] = SP}
             IN  SubSeq(t, b, IF stop = {} THEN SetMax(keep) ELSE SetMin(stop) - 1)

\* the lines of text out that carry label k
Labelled(out, k) ==
    LET lines == splitlines(out)
    IN  {i \in 1..Len(lines) : lines[i] # EmptyStr /\ LabelOf(lines[i]) = k}

TargetParsed ==
    /\ Done /\ call.op = "get_current_cli_target"
    /\ Last(procs).returncode = 0
    /\ outcome.kind = "returned"

\* C4 as stated: the parsed dictionary has exactly the five keys, Password
\* included; a key whose label is on a line maps to the first
\* whitespace-delimited token after the colon, any other key to the empty string.
C4_FiveKeysFirstToken ==
    TargetParsed =>
        LET out   == Last(procs).output
            lines == splitlines(out)
        IN  /\ DOMAIN outcome.value = FiveKeys
            /\ \A k \in FiveKeys :
                  IF Labelled(out, k) = {} THEN outcome.value[k] = EmptyStr
                  ELSE \E i \in Labelled(out, k) :
                           outcome.value[k] = FirstToken(AfterColon(lines[i]))

\* C4, amended: the parsed dictionary has exactly the four keys API endpoint,
\* User, Org and Space and never Password; a key whose label is on a non-empty
\* line maps to the text after the colon of the last such line, stripped of
\* surrounding blanks and cut before its first space character (a tab does not
\* end it); a key on no line maps to the empty string; other lines are ignored.
C4_FourKeysUpToSpace ==
    TargetParsed =>
        LET out   == Last(procs).output
            lines == splitlines(out)
        IN  /\ DOMAIN outcome.value = FourKeys
            /\ \A k \in FourKeys :
                  IF Labelled(out, k) = {} THEN outcome.value[k] = EmptyStr
                  ELSE outcome.value[k] =
                           UpToSpace(AfterColon(lines[SetMax(Labelled(out, k))]))

\* a report with a Password line and a tab-separated User line
C4_Witness ==
    /\ TargetParsed
    /\ Contains(Last(procs).output, <<"Password", COLON, SP, "secret">>)
    /\ outcome.value[USER_KEY] = <<"root", TAB, "x">>

\* the elements of a sequence
Range(f) == {f[i] : i \in DOMAIN f}

\* C5: get_target_dict(include_password) holds the Password key, mapped to the
\* object's password, exactly when include_password is true, and otherwise
\* only the four other keys; get_login_keys lists Password exactly when
\* include_password is true.
C5_PasswordOnlyOnRequest ==
    /\ (Done /\ call.op = "CfInfo.get_target_dict") =>
           LET self == call.args[1]
               incl == call.args[2]
               d    == outcome.value
           IN  /\ PASSWORD_KEY \in DOMAIN d <=> incl
               /\ incl => d[PASSWORD_KEY] = self.password
               /\ ~incl => DOMAIN d = FourKeys
               /\ d[CF_API_KEY] = self.api_url /\ d[USER_KEY] = self.user
               /\ d[ORG_KEY] = self.org /\ d[SPACE_KEY] = self.space
    /\ (Done /\ call.op = "CfInfo.get_login_keys") =>
           (PASSWORD_KEY \in Range(outcome.value) <=> call.args[1])

\* a CfInfo with a password, serialized without asking for it
C5_Witness ==
    /\ Done /\ call.op = "CfInfo.get_target_dict"
    /\ call.args[1].password = <<"secret">> /\ ~call.args[2]
    /\ outcome.kind = "returned"

\* the argument vector of the child whose failure was raised, as one text
FailedCommand == join(<<SP>>, Last(procs).argv)

\* C6 as stated: every CommandFailedError carries the argument vector of the
\* failed child, with the captured output in captured mode and nothing more
\* in pass-through mode, api and auth included.
C6_ErrorCarriesArgv ==
    (Done /\ RaisedCommandFailed) =>
        /\ Contains(outcome.msg, FailedCommand)
        /\ IF Last(procs).stdout = PIPE
           THEN Contains(outcome.msg, Last(procs).output)
           ELSE Len(outcome.msg) = 1 + Len(FailedCommand)

\* C6, amended: every CommandFailedError raised by get_command_output,
\* run_command and api carries the argument vector of the failed child, with
\* the captured output in captured mode and nothing more in pass-through
\* mode; the one raised by auth carries the user name only, not the argument
\* vector.
C6_ErrorCarriesArgvButAuth ==
    (Done /\ RaisedCommandFailed) =>
        IF prim = "auth"
        THEN /\ outcome.msg = <<"Failed to login user: ">> \o Last(procs).argv[3]
             /\ ~Contains(outcome.msg, FailedCommand)
        ELSE /\ Contains(outcome.msg, FailedCommand)
             /\ IF Last(procs).stdout = PIPE
                THEN /\ Contains(outcome.msg, Last(procs).output)
                     /\ Len(outcome.msg) = 3 + Len(FailedCommand) + Len(Last(procs).output)
                ELSE Len(outcome.msg) = 1 + Len(FailedCommand)

\* a captured call failed after its child wrote something
C6_Witness ==
    /\ Done /\ RaisedCommandFailed
    /\ prim = "get_command_output" /\ Last(procs).output # EmptyStr

\* at most one child is alive, and none once the call has ended
NoOverlap ==
    /\ NumAlive <= 1
    /\ \A i \in 1..Len(procs) : procs[i].alive => i = Len(procs)
    /\ Done => NumAlive = 0

\* C7 as stated: every call of a public function, login included, spawns
\* exactly one child and has waited for it when it ends; no two children are
\* ever alive together.
C7_ExactlyOneChild ==
    /\ NoOverlap
    /\ (Done /\ AdapterCall) => Len(procs) = 1

\* the number of subcommands login(cf_info) runs when none of them fails
LoginSubcommands(cf_info) ==
    (IF cf_info.login_required THEN 2 ELSE 0) + (IF cf_info.target_required THEN 1 ELSE 0)

\* C7, amended: every call of a public function other than login spawns
\* exactly one child and has waited for it when it ends; login spawns from
\* none to three children, one after the other (two for a required login, one
\* for a required target, fewer when one fails); no two children are ever
\* alive together.
C7_OneChildButLogin ==
    /\ NoOverlap
    /\ (Done /\ AdapterCall /\ call.op # "login") => Len(procs) = 1
    /\ (Done /\ call.op = "login") =>
           /\ Len(procs) <= LoginSubcommands(call.args[1])
           /\ outcome.kind = "returned" => Len(procs) = LoginSubcommands(call.args[1])

\* a login that ran its three subcommands
C7_Witness ==
    /\ Done /\ call.op = "login" /\ Len(procs) = 3 /\ NumAlive = 0

\* C8: create_service runs [cf, create-service, broker, plan, instance_name]
\* when params_json is None or empty, and that vector followed by -c and
\* params_json when it is given, every argument unchanged at its place.
C8_CreateServiceArgv ==
    (call.op = "create_service" /\ procs # <<>>) =>
        LET broker        == call.args[1]
            plan          == call.args[2]
            instance_name == call.args[3]
            params_json   == call.args[4]
            base          == <<CF, <<"create-service">>, broker, plan, instance_name>>
        IN  /\ Len(procs) = 1
            /\ IF params_json.isNone \/ params_json.s = EmptyStr
               THEN procs[1].argv = base
               ELSE procs[1].argv = base \o << <<"-c">>, params_json.s >>

\* create_service with params and a broker name holding a blank
C8_Witness ==
    /\ call.op = "create_service" /\ procs # <<>>
    /\ call.args[1] = <<"b", SP, "c">>
    /\ call.args[4] = PyStr(<<"{}">>)

\* the lines of the buildpack listing below its three header lines
BuildpackRows(out) ==
    LET lines == splitlines(out)
    IN  [i \in 1..(IF Len(lines) > 3 THEN Len(lines) - 3 ELSE 0) |-> lines[i + 3]]

\* record r holds the tokens t positionally, as far as t goes
Positional(r, t) ==
    /\ Len(t) >= 1 => r.buildpack = t[1]
    /\ Len(t) >= 2 => r.position = t[2]
    /\ Len(t) >= 3 => r.enabled = t[3]
    /\ Len(t) >= 4 => r.locked = t[4]
    /\ Len(t) >= 5 => r.filename = t[5]

BuildpacksListed ==
    /\ Done /\ call.op = "buildpacks" /\ Last(procs).returncode = 0

\* C9 as stated: buildpacks() returns one record per line below the three
\* header lines, in order, holding that line's tokens positionally as raw
\* strings; a line without the five columns yields a malformed record, not
\* an error.
C9_OneRecordPerLine ==
    BuildpacksListed =>
        LET rows == BuildpackRows(Last(procs).output)
        IN  /\ outcome.kind = "returned"
            /\ Len(outcome.value) = Len(rows)
            /\ \A i \in 1..Len(rows) : Positional(outcome.value[i], split(rows[i]))

\* the name of the subcommand a child runs: the word after cf
Subcommand(p) == p.argv[2][1]

\* the subcommands login(cf_info) is to run, in order
LoginPlan(cf_info) ==
    (IF cf_info.login_required THEN <<"api", "auth">> ELSE <<>>)
        \o (IF cf_info.target_required THEN <<"target">> ELSE <<>>)

\* C10: login runs api and auth when login_required and then target when
\* target_required, in that order, each only after the one before has exited
\* with code 0; a non-zero exit raises CommandFailedError and nothing more is
\* spawned; with both flags false nothing is spawned and login returns.
C10_LoginOrder ==
    call.op = "login" =>
        LET plan == LoginPlan(call.args[1])
            n    == Len(procs)
        IN  /\ n <= Len(plan)
            /\ \A i \in 1..n : Subcommand(procs[i]) = plan[i]
            /\ \A i \in 1..(n - 1) : ~procs[i].alive /\ procs[i].returncode = 0
            /\ Done =>
                  IF n > 0 /\ Last(procs).returncode # 0
                  THEN RaisedCommandFailed
                  ELSE n = Len(plan) /\ outcome = Returned(PyNone)

\* a login whose auth failed: target, though required, was not spawned
C10_Witness ==
    /\ Done /\ call.op = "login"
    /\ call.args[1].login_required /\ call.args[1].target_required
    /\ Len(procs) = 2 /\ Last(procs).returncode # 0
    /\ RaisedCommandFailed

\* C11: CfInfo.from_target_dict, given a dictionary get_current_cli_target
\* returned (parsed report or all-empty fallback), returns a CfInfo whose
\* api_url, user, org and space are the dictionary's API endpoint, User, Org
\* and Space values, with ssl_validation false.
C11_CfInfoFromParsedTarget ==
    (Done /\ call.op = "CfInfo.from_target_dict"
          /\ call.source = "get_current_cli_target") =>
        LET cf_target == call.args[1]
        IN  /\ outcome.kind = "returned"
            /\ outcome.value.api_url = cf_target[CF_API_KEY]
            /\ outcome.value.user = cf_target[USER_KEY]
            /\ outcome.value.org = cf_target[ORG_KEY]
            /\ outcome.value.space = cf_target[SPACE_KEY]
            /\ outcome.value.ssl_validation = FALSE

====
